---- MODULE Spec2Model ----
(***************************************************************************)
(* Model of the two batch-render scripts render_sweep.py and               *)
(* render_sweep1.py: the parameter resolvers, the turntable rotation and   *)
(* the sweep drivers (main of both scripts), run against a host scene      *)
(* that is a set of nodes, each with an ordered list of parameters         *)
(* (internal name, UI label, current value).                               *)
(*                                                                         *)
(* Strings are TLC strings; the scripts' lower(), strip(), "in" and the    *)
(* number formatting are computed character by character.  Floats are      *)
(* exact rationals (num/den records).  The elapsed-seconds column of the   *)
(* log is wall-clock noise and is left out of the rows.                    *)
(***************************************************************************)
EXTENDS Integers, Sequences, FiniteSets, TLC

(***************************************************************************)
(* Strings                                                                 *)
(***************************************************************************)
UpperChars == "ABCDEFGHIJKLMNOPQRSTUVWXYZ"
LowerChars == "abcdefghijklmnopqrstuvwxyz"
DigitChars == "0123456789"

CharAt(s, i) == SubSeq(s, i, i)

\* str.lower() on one character: the table of the letters that change
LowerTable ==
    [c \in {CharAt(UpperChars, i) : i \in 1..Len(UpperChars)} |->
        CharAt(LowerChars, CHOOSE i \in 1..Len(UpperChars) : CharAt(UpperChars, i) = c)]

LowerChar(c) == IF c \in DOMAIN LowerTable THEN LowerTable[c] ELSE c

RECURSIVE Lower(_)
\* str.lower()
Lower(s) == IF Len(s) = 0 THEN "" ELSE LowerChar(CharAt(s, 1)) \o Lower(Tail(s))

RECURSIVE LStrip(_)
LStrip(s) == IF Len(s) > 0 /\ CharAt(s, 1) = " " THEN LStrip(Tail(s)) ELSE s

RECURSIVE RStrip(_)
RStrip(s) ==
    IF Len(s) > 0 /\ CharAt(s, Len(s)) = " " THEN RStrip(SubSeq(s, 1, Len(s) - 1)) ELSE s

\* str.strip()
Strip(s) == RStrip(LStrip(s))

\* Python's  needle in hay  on strings
Contains(needle, hay) ==
    \E i \in 0..(Len(hay) - Len(needle)) : SubSeq(hay, i + 1, i + Len(needle)) = needle

RECURSIVE IntStr(_)
\* str(n) / format(n, "d") for n >= 0
IntStr(n) ==
    IF n < 10 THEN CharAt(DigitChars, n + 1)
    ELSE IntStr(n \div 10) \o CharAt(DigitChars, (n % 10) + 1)

RECURSIVE ZeroPad(_, _)
\* format(n, "0<w>d"): pads on the left with zeros up to w, never truncates
ZeroPad(s, w) == IF Len(s) >= w THEN s ELSE ZeroPad("0" \o s, w)

\* f"{ps:03d}"
Fmt03d(n) == ZeroPad(IntStr(n), 3)

\* f"{frame:04d}"
Fmt04d(n) == ZeroPad(IntStr(n), 4)

\* f"{x:.2f}" of a float given in hundredths (the configured values have at
\* most two decimals, so the rounding of .2f is exact on them)
Fmt2f(h) == IntStr(h \div 100) \o "." \o ZeroPad(IntStr(h % 100), 2)

(***************************************************************************)
(* Values held by parameters                                               *)
(***************************************************************************)
RECURSIVE GCD(_, _)
GCD(a, b) == IF b = 0 THEN a ELSE GCD(b, a % b)

\* a float as an exact rational in lowest terms
FloatVal(n, d) ==
    LET g == IF n = 0 THEN d ELSE GCD(n, d)
    IN [kind |-> "float", num |-> n \div g, den |-> d \div g, str |-> ""]

IntVal(n) == [kind |-> "int", num |-> n, den |-> 1, str |-> ""]

StrVal(s) == [kind |-> "str", num |-> 0, den |-> 1, str |-> s]

\* the value a parameter has in the loaded scene before the script sets it
SceneVal == [kind |-> "scene", num |-> 0, den |-> 1, str |-> ""]

(***************************************************************************)
(* Parameter lookup on a node.  A node's parameters are a sequence of      *)
(* [name, label] records in the host's iteration order (node.parms()).     *)
(* A resolver returns the position of the parameter, 0 for None.           *)
(***************************************************************************)
P(n, l) == [name |-> n, label |-> l]

\* node.parm(name): the parameter with exactly that internal name, or None
ParmIndex(parms, n) ==
    IF \E i \in 1..Len(parms) : parms[i].name = n
    THEN CHOOSE i \in 1..Len(parms) : parms[i].name = n
    ELSE 0

\* first element of a for-loop over node.parms() that satisfies Test
\* (hit[i] tells whether the i-th parameter does), 0 when the loop runs out
FirstParm(hit) ==
    IF \E i \in 1..Len(hit) : hit[i]
    THEN CHOOSE i \in 1..Len(hit) : hit[i] /\ \A j \in 1..(i - 1) : ~hit[j]
    ELSE 0

\* for name in candidates: p = node.parm(name); if p is not None: return p
FirstCandidate(parms, candidates) ==
    IF \E k \in 1..Len(candidates) : ParmIndex(parms, candidates[k]) # 0
    THEN ParmIndex(parms,
            candidates[CHOOSE k \in 1..Len(candidates) :
                /\ ParmIndex(parms, candidates[k]) # 0
                /\ \A j \in 1..(k - 1) : ParmIndex(parms, candidates[j]) = 0])
    ELSE 0

\* render_sweep1.py
find_parm_by_label_contains(parms, needles) ==
    LET lowered == [k \in 1..Len(needles) |-> Lower(needles[k])]
        Test(p) ==
            LET label == Lower(p.label)
                name == Lower(p.name)
            IN \/ \E k \in 1..Len(lowered) : Contains(lowered[k], label)
               \/ \E k \in 1..Len(lowered) : Contains(lowered[k], name)
    IN FirstParm([i \in 1..Len(parms) |-> Test(parms[i])])

OutCandidates1 ==
    <<"picture", "outputpicture", "output_picture", "vm_picture", "ri_picture",
      "filename", "image">>

\* mutant: the label search is tried before the candidate names
find_output_picture_parm_label_first(parms) ==
    IF find_parm_by_label_contains(parms, <<"output picture", "picture">>) # 0
    THEN find_parm_by_label_contains(parms, <<"output picture", "picture">>)
    ELSE FirstCandidate(parms, OutCandidates1)

\* render_sweep1.py; 0 stands for the RuntimeError
find_output_picture_parm(parms) ==
    IF FirstCandidate(parms, OutCandidates1) # 0
    THEN FirstCandidate(parms, OutCandidates1)
    ELSE find_parm_by_label_contains(parms, <<"output picture", "picture">>)

OutCandidates0 ==
    <<"picture", "vm_picture", "outputpicture", "output_picture", "ri_picture",
      "image", "filename">>

\* the label/name test of the second loop of render_sweep.py
BothWords(p) ==
    LET label == Lower(p.label)
        name == Lower(p.name)
    IN \/ Contains("output picture", label)
       \/ (Contains("picture", label) /\ Contains("output", label))
       \/ Contains("output picture", name)
       \/ (Contains("picture", name) /\ Contains("output", name))

\* the test of the third loop of render_sweep.py
LabelIsPicture(p) == Lower(Strip(p.label)) = "picture"

\* render_sweep.py; 0 stands for the RuntimeError
find_output_picture_parm_sweep(parms) ==
    IF FirstCandidate(parms, OutCandidates0) # 0
    THEN FirstCandidate(parms, OutCandidates0)
    ELSE IF FirstParm([i \in 1..Len(parms) |-> BothWords(parms[i])]) # 0
    THEN FirstParm([i \in 1..Len(parms) |-> BothWords(parms[i])])
    ELSE FirstParm([i \in 1..Len(parms) |-> LabelIsPicture(parms[i])])

SampleCandidates ==
    <<"pxsamples", "karma_pixelsamples", "pixel_samples", "pixelsamples",
      "samplesperpixel">>

\* the parameter set_pixel_samples sets (0: none)
PixelSamplesParm(parms) ==
    IF FirstCandidate(parms, SampleCandidates) # 0
    THEN FirstCandidate(parms, SampleCandidates)
    ELSE find_parm_by_label_contains(parms,
            <<"pixel samples", "samples per pixel", "samples/pixel">>)

NotFound == "<not_found>"

\* mutant: without a match the name of the last candidate tried is returned
set_pixel_samples_last_candidate(parms, vals, samples) ==
    LET i == PixelSamplesParm(parms)
    IN IF i # 0
       THEN [vals |-> [vals EXCEPT ![i] = IntVal(samples)], ret |-> parms[i].name]
       ELSE [vals |-> vals, ret |-> SampleCandidates[Len(SampleCandidates)]]

\* mutant: a parameter that already holds a value set by the script is passed over
set_pixel_samples_unset_only(parms, vals, samples) ==
    LET unset == SelectSeq([i \in 1..Len(parms) |-> [p |-> parms[i], v |-> vals[i]]],
                     LAMBDA e : e.v = SceneVal)
        names == [i \in 1..Len(unset) |-> unset[i].p]
        i == IF PixelSamplesParm(names) = 0 THEN 0
             ELSE ParmIndex(parms, names[PixelSamplesParm(names)].name)
    IN IF i # 0
       THEN [vals |-> [vals EXCEPT ![i] = IntVal(samples)], ret |-> parms[i].name]
       ELSE [vals |-> vals, ret |-> NotFound]

\* set_pixel_samples: [vals |-> the node's values afterwards, ret |-> the string returned]
set_pixel_samples(parms, vals, samples) ==
    LET i == PixelSamplesParm(parms)
    IN IF i # 0
       THEN [vals |-> [vals EXCEPT ![i] = IntVal(samples)], ret |-> parms[i].name]
       ELSE [vals |-> vals, ret |-> NotFound]

\* mutant: the fraction taken over total_frames instead of total_frames - 1
rotate_camera_turntable_over_n(parms, vals, frame_idx, total_frames, degrees) ==
    IF total_frames <= 1
    THEN [vals |-> vals, divided |-> FALSE, err |-> FALSE]
    ELSE LET ry == FloatVal(frame_idx * degrees, total_frames)
             i == ParmIndex(parms, "ry")
         IN IF i = 0
            THEN [vals |-> vals, divided |-> TRUE, err |-> FALSE]
            ELSE [vals |-> [vals EXCEPT ![i] = ry], divided |-> TRUE, err |-> FALSE]

\* rotate_camera_turntable: the camera's values afterwards and whether the
\* division was executed; err is set when the division is by zero
rotate_camera_turntable(parms, vals, frame_idx, total_frames, degrees) ==
    IF total_frames <= 1
    THEN [vals |-> vals, divided |-> FALSE, err |-> FALSE]
    ELSE IF total_frames - 1 = 0
    THEN [vals |-> vals, divided |-> TRUE, err |-> TRUE]
    ELSE LET ry == FloatVal(frame_idx * degrees, total_frames - 1)
             i == ParmIndex(parms, "ry")
         IN IF i = 0
            THEN [vals |-> vals, divided |-> TRUE, err |-> FALSE]
            ELSE [vals |-> [vals EXCEPT ![i] = ry], divided |-> TRUE, err |-> FALSE]

(***************************************************************************)
(* Program constants                                                       *)
(***************************************************************************)
KARMA_ROP_PATH == "/out/karma1"
MATERIAL_NODE_PATH == "/mat/test_material"
LIGHT_PATH == "/obj/env_light"
CAM_PATH == "/obj/render_cam"
ROUGHNESS_PARM_NAME == "rough"
LIGHT_INT_PARM_NAME == "light_intensity"
OUTDIR == "outputs"
RENDERS_DIR == "renders"

NodePaths == {KARMA_ROP_PATH, MATERIAL_NODE_PATH, LIGHT_PATH, CAM_PATH}

\* SweepConfig of render_sweep1.py; floats in hundredths
cfg ==
    [roughness |-> <<10, 30, 50, 70, 90>>,
     light_intensity |-> <<150, 250, 350>>,
     pixel_samples |-> <<16, 32>>,
     turntable_frames |-> 12,
     turntable_degrees |-> 360]

\* roughness_values of render_sweep.py; floats in hundredths
roughness_values == <<10, 30, 50, 70, 90>>

\* mutant: the product taken with the pixel samples outermost
combos_samples_first ==
    LET R == Len(cfg.roughness)
        L == Len(cfg.light_intensity)
        S == Len(cfg.pixel_samples)
    IN [k \in 1..(R * L * S) |->
          [r |-> cfg.roughness[(((k - 1) \div L) % R) + 1],
           li |-> cfg.light_intensity[((k - 1) % L) + 1],
           ps |-> cfg.pixel_samples[((k - 1) \div (R * L)) + 1]]]

\* list(itertools.product(cfg.roughness, cfg.light_intensity, cfg.pixel_samples)):
\* the rightmost tuple advances fastest
combos ==
    LET R == Len(cfg.roughness)
        L == Len(cfg.light_intensity)
        S == Len(cfg.pixel_samples)
    IN [k \in 1..(R * L * S) |->
          [r |-> cfg.roughness[((k - 1) \div (L * S)) + 1],
           li |-> cfg.light_intensity[(((k - 1) \div S) % L) + 1],
           ps |-> cfg.pixel_samples[((k - 1) % S) + 1]]]

\* outdir / f"rough_{r:.2f}" / f"light_{li:.2f}" / f"spp_{ps:03d}"
var_dir(c) ==
    OUTDIR \o "/rough_" \o Fmt2f(c.r) \o "/light_" \o Fmt2f(c.li) \o "/spp_" \o Fmt03d(c.ps)

\* mutant: the frame files are written to outdir itself, not to var_dir
out_file_flat(c, frame) == OUTDIR \o "/frame_" \o Fmt04d(frame) \o ".png"

\* str(var_dir / f"frame_{frame:04d}.png")
out_file(c, frame) == var_dir(c) \o "/frame_" \o Fmt04d(frame) \o ".png"

\* str(renders_dir / f"roughness_{r:.2f}.png") of render_sweep.py
out_file_sweep(r) == RENDERS_DIR \o "/roughness_" \o Fmt2f(r) \o ".png"

CsvHeader ==
    <<"roughness", "light_intensity", "pixel_samples", "frame", "output_file",
      "pixel_samples_parm_used", "seconds">>

\* one writer.writerow of the sweep loop (without the seconds column)
CsvRow(c, frame, ps_used) ==
    [roughness |-> Fmt2f(c.r),
     light_intensity |-> Fmt2f(c.li),
     pixel_samples |-> c.ps,
     frame |-> frame,
     output_file |-> out_file(c, frame),
     pixel_samples_parm_used |-> ps_used]

(***************************************************************************)
(* Scenes the scripts are run on                                           *)
(***************************************************************************)
RopParmLists ==
    { <<P("camera", "Camera"), P("picture", "Output Picture"),
        P("pxsamples", "Pixel Samples")>>,
      <<P("vm_picture", "Output Picture"), P("outputpicture", "Image"),
        P("spp", "Samples Per Pixel")>>,
      <<P("fmt", "Picture Format"), P("outfile", "Output Picture")>>,
      <<P("Output_Picture_File", "File"), P("pixelsamples", "Samples"),
        P("pxsamples", "Pixel Samples")>>,
      <<P("imgplane", " Picture ")>>,
      <<P("quality", "Picture Pixel Samples")>>,
      <<P("camera", "Camera"), P("pxsamples", "Pixel Samples")>>,
      <<>> }

MatParmLists ==
    { <<P("basecolor", "Base Color"), P("rough", "Roughness")>>,
      <<P("basecolor", "Base Color")>> }

LightParmLists ==
    { <<P("light_enable", "Enable"), P("light_intensity", "Intensity")>>,
      <<P("exposure", "Exposure"), P("env_int", "Light Intensity")>>,
      <<P("exposure", "Exposure")>> }

CamParmLists ==
    { <<P("tx", "Translate X"), P("ry", "Rotate Y")>>,
      <<P("tx", "Translate X")>> }

(***************************************************************************)
(* State                                                                   *)
(***************************************************************************)
VARIABLES
    script,            \* which script runs
    hip_exists,        \* hip_path.exists()
    nodes,             \* the node paths hou.node() resolves in the scene
    parms,             \* node path -> its parameters, in node.parms() order
    vals,              \* node path -> the current value of each parameter
    pc,                \* position of main
    exit_status,       \* "running", "0", "1" or "unhandled" (uncaught exception)
    rough_parm,        \* resolved parameters (positions on their nodes), 0 before
    light_int_parm,
    out_picture_parm,
    ci,                \* position in combos (roughness_values in render_sweep.py)
    frame_idx,
    ps_parm_used,
    csv_state,         \* "none", "open", "closed"
    csv_header,        \* header rows written
    csv_rows,          \* data rows written
    renders,           \* history of rop.render calls: frame range and output picture
    failures,          \* the positions in renders of the calls that raised
    call               \* arguments and result of a single resolver / turntable call

vars ==
    <<script, hip_exists, nodes, parms, vals, pc, exit_status, rough_parm,
      light_int_parm, out_picture_parm, ci, frame_idx, ps_parm_used, csv_state,
      csv_header, csv_rows, renders, failures, call>>

scene_vars == <<script, hip_exists, nodes, parms>>
handle_vars == <<rough_parm, light_int_parm, out_picture_parm>>
csv_vars == <<csv_state, csv_header, csv_rows>>
render_vars == <<renders, failures>>

SWEEP == "render_sweep.py"
SWEEP1 == "render_sweep1.py"

NoCall == [fn |-> "none"]

InitVals(pl) == [n \in NodePaths |-> [i \in 1..Len(pl[n]) |-> SceneVal]]

Init ==
    /\ script \in {SWEEP, SWEEP1}
    /\ hip_exists \in BOOLEAN
    /\ nodes \in SUBSET NodePaths
    /\ \E rp \in RopParmLists, mp \in MatParmLists, lp \in LightParmLists,
          cp \in CamParmLists :
          /\ parms = [n \in NodePaths |->
                        IF n \notin nodes THEN <<>>
                        ELSE IF n = KARMA_ROP_PATH THEN rp
                        ELSE IF n = MATERIAL_NODE_PATH THEN mp
                        ELSE IF n = LIGHT_PATH THEN lp
                        ELSE cp]
          /\ vals = InitVals(parms)
    /\ pc = "start"
    /\ exit_status = "running"
    /\ rough_parm = 0
    /\ light_int_parm = 0
    /\ out_picture_parm = 0
    /\ ci = 0
    /\ frame_idx = 0
    /\ ps_parm_used = ""
    /\ csv_state = "none"
    /\ csv_header = <<>>
    /\ csv_rows = <<>>
    /\ renders = <<>>
    /\ failures = {}
    /\ call = NoCall

(***************************************************************************)
(* The host calls                                                          *)
(***************************************************************************)
\* hou.frame(): the scene's current frame (render_sweep.py renders it)
HouFrame == 1

\* parm.set(value) on the parameter at position i of node n
SetParm(v, n, i, value) == [v EXCEPT ![n][i] = value]

\* rop.render(frame_range=(frame, frame)) as the host sees it: the frame range
\* asked for and the output picture the render node holds at that moment
render_one(rop_vals, out_parm, frame) ==
    [frame_range |-> <<frame, frame>>, picture |-> rop_vals[out_parm]]

\* require_node on every node path the script uses, in the script's order
RequiredNodes(s) ==
    IF s = SWEEP THEN {KARMA_ROP_PATH, MATERIAL_NODE_PATH} ELSE NodePaths

\* light.parm(args.light_int_parm), then the label search for "intensity"
LightIntensityParm(lparms) ==
    IF ParmIndex(lparms, LIGHT_INT_PARM_NAME) # 0
    THEN ParmIndex(lparms, LIGHT_INT_PARM_NAME)
    ELSE find_parm_by_label_contains(lparms, <<"intensity">>)

(***************************************************************************)
(* main of both scripts                                                    *)
(***************************************************************************)
Fatal ==
    /\ pc' = "fatal"
    /\ exit_status' = "unhandled"

\* mutant: the scene is loaded without looking whether the file exists
CheckHip_unchecked ==
    /\ pc = "start"
    /\ pc' = "load"
    /\ UNCHANGED <<scene_vars, vals, handle_vars, exit_status, ci, frame_idx,
                   ps_parm_used, csv_vars, render_vars, call>>

\* if not hip_path.exists(): return 1 (render_sweep.py) / raise (render_sweep1.py)
CheckHip ==
    /\ pc = "start"
    /\ IF hip_exists
       THEN pc' = "load" /\ exit_status' = exit_status
       ELSE IF script = SWEEP
       THEN pc' = "exited" /\ exit_status' = "1"
       ELSE Fatal
    /\ UNCHANGED <<scene_vars, vals, handle_vars, ci, frame_idx, ps_parm_used,
                   csv_vars, render_vars, call>>

\* hou.hipFile.load and the require_node calls
ResolveNodes ==
    /\ pc = "load"
    /\ IF RequiredNodes(script) \subseteq nodes
       THEN pc' = "parms" /\ exit_status' = exit_status
       ELSE Fatal
    /\ UNCHANGED <<scene_vars, vals, handle_vars, ci, frame_idx, ps_parm_used,
                   csv_vars, render_vars, call>>

\* require_parm(mat, ...), the light intensity lookup, find_output_picture_parm
ResolveParms ==
    /\ pc = "parms"
    /\ LET rp == ParmIndex(parms[MATERIAL_NODE_PATH], ROUGHNESS_PARM_NAME)
           lp == IF script = SWEEP THEN 0 ELSE LightIntensityParm(parms[LIGHT_PATH])
           op == IF script = SWEEP
                 THEN find_output_picture_parm_sweep(parms[KARMA_ROP_PATH])
                 ELSE find_output_picture_parm(parms[KARMA_ROP_PATH])
       IN IF rp = 0 \/ (script = SWEEP1 /\ lp = 0) \/ op = 0
          THEN Fatal /\ UNCHANGED <<handle_vars, ci>>
          ELSE /\ rough_parm' = rp
               /\ light_int_parm' = lp
               /\ out_picture_parm' = op
               /\ pc' = IF script = SWEEP THEN "sweep" ELSE "open"
               /\ ci' = IF script = SWEEP THEN 1 ELSE ci
               /\ exit_status' = exit_status
    /\ UNCHANGED <<scene_vars, vals, frame_idx, ps_parm_used, csv_vars, render_vars, call>>

\* with open(csv_path, "w"): the header row, combos
OpenLog ==
    /\ pc = "open"
    /\ csv_state' = "open"
    /\ csv_header' = <<CsvHeader>>
    /\ ci' = 1
    /\ pc' = "combo"
    /\ UNCHANGED <<scene_vars, vals, handle_vars, exit_status, frame_idx,
                   ps_parm_used, csv_rows, render_vars, call>>

\* for (r, li, ps) in combos: the three sets and var_dir
BeginCombo ==
    /\ pc = "combo"
    /\ ci <= Len(combos)
    /\ LET c == combos[ci]
           v1 == SetParm(vals, MATERIAL_NODE_PATH, rough_parm, FloatVal(c.r, 100))
           v2 == SetParm(v1, LIGHT_PATH, light_int_parm, FloatVal(c.li, 100))
           sps == set_pixel_samples(parms[KARMA_ROP_PATH], v2[KARMA_ROP_PATH], c.ps)
       IN /\ vals' = [v2 EXCEPT ![KARMA_ROP_PATH] = sps.vals]
          /\ ps_parm_used' = sps.ret
    /\ frame_idx' = 0
    /\ pc' = "frame"
    /\ UNCHANGED <<scene_vars, handle_vars, exit_status, ci, csv_vars, render_vars, call>>

\* the combos are exhausted: the with block closes the log, main returns 0
EndSweep ==
    /\ pc = "combo"
    /\ ci > Len(combos)
    /\ csv_state' = "closed"
    /\ exit_status' = "0"
    /\ pc' = "done"
    /\ UNCHANGED <<scene_vars, vals, handle_vars, ci, frame_idx, ps_parm_used,
                   csv_header, csv_rows, render_vars, call>>

\* for frame_idx in range(cfg.turntable_frames): the turntable rotation and
\* out_picture_parm.set(str(out_file))
BeginFrame ==
    /\ pc = "frame"
    /\ frame_idx < cfg.turntable_frames
    /\ LET rot == rotate_camera_turntable(parms[CAM_PATH], vals[CAM_PATH], frame_idx,
                      cfg.turntable_frames, cfg.turntable_degrees)
           v1 == [vals EXCEPT ![CAM_PATH] = rot.vals]
       IN IF rot.err
          THEN Fatal /\ csv_state' = "closed" /\ vals' = vals
          ELSE /\ vals' = SetParm(v1, KARMA_ROP_PATH, out_picture_parm,
                              StrVal(out_file(combos[ci], 1 + frame_idx)))
               /\ pc' = "render"
               /\ UNCHANGED <<exit_status, csv_state>>
    /\ UNCHANGED <<scene_vars, handle_vars, ci, frame_idx, ps_parm_used, csv_header,
                   csv_rows, render_vars, call>>

\* the frames of one combination are exhausted
EndCombo ==
    /\ pc = "frame"
    /\ frame_idx >= cfg.turntable_frames
    /\ ci' = ci + 1
    /\ pc' = "combo"
    /\ UNCHANGED <<scene_vars, vals, handle_vars, exit_status, frame_idx, ps_parm_used,
                   csv_vars, render_vars, call>>

\* for r in roughness_values of render_sweep.py: the two sets
SweepStep ==
    /\ pc = "sweep"
    /\ ci <= Len(roughness_values)
    /\ LET r == roughness_values[ci]
           v1 == SetParm(vals, MATERIAL_NODE_PATH, rough_parm, FloatVal(r, 100))
       IN vals' = SetParm(v1, KARMA_ROP_PATH, out_picture_parm, StrVal(out_file_sweep(r)))
    /\ pc' = "render"
    /\ UNCHANGED <<scene_vars, handle_vars, exit_status, ci, frame_idx, ps_parm_used,
                   csv_vars, render_vars, call>>

\* render_sweep.py is through its roughness values: return 0
SweepDone ==
    /\ pc = "sweep"
    /\ ci > Len(roughness_values)
    /\ exit_status' = "0"
    /\ pc' = "done"
    /\ UNCHANGED <<scene_vars, vals, handle_vars, ci, frame_idx, ps_parm_used,
                   csv_vars, render_vars, call>>

\* the frame the render call is made for
RenderFrame == IF script = SWEEP THEN HouFrame ELSE 1 + frame_idx

\* the render call returns
RenderOk ==
    /\ pc = "render"
    /\ renders' = Append(renders,
                    render_one(vals[KARMA_ROP_PATH], out_picture_parm, RenderFrame))
    /\ failures' = failures
    /\ IF script = SWEEP
       THEN pc' = "sweep" /\ ci' = ci + 1
       ELSE pc' = "write" /\ ci' = ci
    /\ UNCHANGED <<scene_vars, vals, handle_vars, exit_status, frame_idx, ps_parm_used,
                   csv_vars, call>>

\* mutant: the exception of the render call is caught and the sweep goes on
RenderFail_swallowed ==
    /\ pc = "render"
    /\ script = SWEEP1
    /\ renders' = Append(renders,
                    render_one(vals[KARMA_ROP_PATH], out_picture_parm, 1 + frame_idx))
    /\ failures' = failures \cup {Len(renders) + 1}
    /\ pc' = "write"
    /\ UNCHANGED <<scene_vars, vals, handle_vars, exit_status, ci, frame_idx,
                   ps_parm_used, csv_vars, call>>

\* the render call raises: the exception leaves the with block, which closes
\* the log, and main
RenderFail ==
    /\ pc = "render"
    /\ renders' = Append(renders,
                    render_one(vals[KARMA_ROP_PATH], out_picture_parm, RenderFrame))
    /\ failures' = failures \cup {Len(renders) + 1}
    /\ Fatal
    /\ csv_state' = IF csv_state = "open" THEN "closed" ELSE csv_state
    /\ UNCHANGED <<scene_vars, vals, handle_vars, ci, frame_idx, ps_parm_used,
                   csv_header, csv_rows, call>>

\* writer.writerow([...]) after the render call returned
WriteRow ==
    /\ pc = "write"
    /\ csv_rows' = Append(csv_rows, CsvRow(combos[ci], 1 + frame_idx, ps_parm_used))
    /\ frame_idx' = frame_idx + 1
    /\ pc' = "frame"
    /\ UNCHANGED <<scene_vars, vals, handle_vars, exit_status, ci, ps_parm_used,
                   csv_state, csv_header, render_vars, call>>

Next ==
    \/ CheckHip
    \/ ResolveNodes
    \/ ResolveParms
    \/ OpenLog
    \/ BeginCombo
    \/ EndSweep
    \/ BeginFrame
    \/ EndCombo
    \/ SweepStep
    \/ SweepDone
    \/ RenderOk
    \/ RenderFail
    \/ WriteRow

Spec == Init /\ [][Next]_vars

(***************************************************************************)
(* The resolvers called on their own, on any node built from a universe of *)
(* parameters: candidate names of both concepts, labels that match one or  *)
(* both label searches, mixed case, padded and empty labels.               *)
(***************************************************************************)
MaxParms == 2
MaxFrames == 12

ParmUniverse ==
    <<P("picture", "Output Picture"),
      P("vm_picture", ""),
      P("outputpicture", "Image"),
      P("image", "Picture Format"),
      P("filename", "File"),
      P("outfile", "Output Picture"),
      P("fmt", "Picture Format"),
      P("imgplane", " Picture "),
      P("Output_Picture_File", "File"),
      P("pxsamples", "Pixel Samples"),
      P("pixelsamples", "Samples"),
      P("spp", "Samples Per Pixel"),
      P("quality", "Picture Pixel Samples"),
      P("camera", "Camera")>>

\* the parameter lists of at most MaxParms parameters with distinct names
ParmLists ==
    LET Idx == UNION {[1..n -> 1..Len(ParmUniverse)] : n \in 0..MaxParms}
        Inj == {f \in Idx : \A i, j \in DOMAIN f : i # j => f[i] # f[j]}
    IN {[i \in DOMAIN f |-> ParmUniverse[f[i]]] : f \in Inj}

NeedleLists ==
    { <<"output picture", "picture">>,
      <<"pixel samples", "samples per pixel", "samples/pixel">>,
      <<"Intensity">> }

Degrees == {0, 90, 360}

InitCall(node, lists, at) ==
    /\ script = SWEEP1
    /\ hip_exists = TRUE
    /\ nodes = {node}
    /\ \E pl \in lists :
          /\ parms = [n \in NodePaths |-> IF n = node THEN pl ELSE <<>>]
          /\ vals = InitVals(parms)
    /\ pc = at
    /\ exit_status = "running"
    /\ rough_parm = 0
    /\ light_int_parm = 0
    /\ out_picture_parm = 0
    /\ ci = 0
    /\ frame_idx = 0
    /\ ps_parm_used = ""
    /\ csv_state = "none"
    /\ csv_header = <<>>
    /\ csv_rows = <<>>
    /\ renders = <<>>
    /\ failures = {}
    /\ call = NoCall

call_only ==
    <<scene_vars, pc, exit_status, handle_vars, ci, frame_idx, ps_parm_used, csv_vars,
      render_vars>>

InitResolve == InitCall(KARMA_ROP_PATH, ParmLists, "resolver")

CallFindOutputPicture ==
    /\ pc = "resolver"
    /\ call' = [fn |-> "find_output_picture_parm", src |-> SWEEP1, arg |-> <<>>,
                ret |-> find_output_picture_parm(parms[KARMA_ROP_PATH])]
    /\ UNCHANGED <<call_only, vals>>

CallFindOutputPictureSweep ==
    /\ pc = "resolver"
    /\ call' = [fn |-> "find_output_picture_parm", src |-> SWEEP, arg |-> <<>>,
                ret |-> find_output_picture_parm_sweep(parms[KARMA_ROP_PATH])]
    /\ UNCHANGED <<call_only, vals>>

CallFindParmByLabel ==
    /\ pc = "resolver"
    /\ \E needles \in NeedleLists :
          call' = [fn |-> "find_parm_by_label_contains", src |-> SWEEP1, arg |-> needles,
                   ret |-> find_parm_by_label_contains(parms[KARMA_ROP_PATH], needles)]
    /\ UNCHANGED <<call_only, vals>>

CallSetPixelSamples ==
    /\ pc = "resolver"
    /\ \E k \in 1..Len(cfg.pixel_samples) :
          LET sps == set_pixel_samples(parms[KARMA_ROP_PATH], vals[KARMA_ROP_PATH],
                         cfg.pixel_samples[k])
          IN /\ vals' = [vals EXCEPT ![KARMA_ROP_PATH] = sps.vals]
             /\ call' = [fn |-> "set_pixel_samples", src |-> SWEEP1,
                         arg |-> <<cfg.pixel_samples[k]>>,
                         ret |-> ParmIndex(parms[KARMA_ROP_PATH], sps.ret)]
    /\ UNCHANGED call_only

NextResolve ==
    \/ CallFindOutputPicture
    \/ CallFindOutputPictureSweep
    \/ CallFindParmByLabel
    \/ CallSetPixelSamples

SpecResolve == InitResolve /\ [][NextResolve]_vars

(***************************************************************************)
(* rotate_camera_turntable called on its own, as the frame loop calls it:  *)
(* frame_idx 0, 1, ... of a turntable of total_frames frames               *)
(***************************************************************************)
InitRotate == InitCall(CAM_PATH, CamParmLists, "turntable")

\* the value of the camera's ry parameter (SceneVal without one)
CamRy(v) ==
    IF ParmIndex(parms[CAM_PATH], "ry") = 0 THEN SceneVal
    ELSE v[CAM_PATH][ParmIndex(parms[CAM_PATH], "ry")]

Rotate(idx, total, degrees) ==
    LET rot == rotate_camera_turntable(parms[CAM_PATH], vals[CAM_PATH], idx, total, degrees)
    IN /\ vals' = [vals EXCEPT ![CAM_PATH] = rot.vals]
       /\ call' = [fn |-> "rotate_camera_turntable", frame_idx |-> idx,
                   total_frames |-> total, degrees |-> degrees,
                   divided |-> rot.divided, err |-> rot.err, before |-> CamRy(vals)]
       /\ UNCHANGED call_only

RotateFirst ==
    /\ pc = "turntable"
    /\ call = NoCall
    /\ \E total \in 0..MaxFrames, degrees \in Degrees : Rotate(0, total, degrees)

RotateNext ==
    /\ pc = "turntable"
    /\ call # NoCall
    /\ ~call.err
    /\ call.frame_idx + 1 < call.total_frames
    /\ Rotate(call.frame_idx + 1, call.total_frames, call.degrees)

NextRotate ==
    \/ RotateFirst
    \/ RotateNext

SpecRotate == InitRotate /\ [][NextRotate]_vars

(***************************************************************************)
(* Properties of the resolvers (SpecResolve)                               *)
(***************************************************************************)
RopParms == parms[KARMA_ROP_PATH]

HasName(pl, n) == \E i \in 1..Len(pl) : pl[i].name = n

HasCandidate(pl, cands) == \E k \in 1..Len(cands) : HasName(pl, cands[k])

\* pl[i] carries the first name of cands, in the order of cands, that the node has
IsFirstCandidate(pl, cands, i) ==
    /\ i \in 1..Len(pl)
    /\ \E k \in 1..Len(cands) :
          /\ pl[i].name = cands[k]
          /\ \A j \in 1..(k - 1) : ~HasName(pl, cands[j])

CandidatesOf(src) == IF src = SWEEP THEN OutCandidates0 ELSE OutCandidates1

HasBoth(str) == Contains("output", Lower(str)) /\ Contains("picture", Lower(str))

\* C5: on a node that has at least one candidate name of the concept, the
\* resolver (find_output_picture_parm of both scripts, set_pixel_samples)
\* returns the parameter carrying the first candidate name present, in
\* candidate-list order, whatever the other parameters' names and labels are;
\* set_pixel_samples sets that parameter.
C5_Tier1Precedence ==
    /\ (call.fn = "find_output_picture_parm" /\ HasCandidate(RopParms, CandidatesOf(call.src)))
          => IsFirstCandidate(RopParms, CandidatesOf(call.src), call.ret)
    /\ (call.fn = "set_pixel_samples" /\ HasCandidate(RopParms, SampleCandidates))
          => /\ IsFirstCandidate(RopParms, SampleCandidates, call.ret)
             /\ vals[KARMA_ROP_PATH][call.ret] = IntVal(call.arg[1])

\* a label match comes first in the node's order, a later candidate name wins
C5_Witness ==
    /\ call.fn = "find_output_picture_parm"
    /\ Len(RopParms) = 2
    /\ HasBoth(RopParms[1].label)
    /\ ~HasCandidate(<<RopParms[1]>>, CandidatesOf(call.src))
    /\ HasCandidate(RopParms, CandidatesOf(call.src))
    /\ call.ret = 2

\* C6: on a node with no candidate name of the output-picture concept and a
\* parameter whose lower-cased label contains both "output" and "picture",
\* find_output_picture_parm returns the first parameter, in the node's order,
\* whose label or internal name contains both substrings.
C6_FirstWithBothSubstrings ==
    (/\ call.fn = "find_output_picture_parm"
     /\ ~HasCandidate(RopParms, CandidatesOf(call.src))
     /\ \E i \in 1..Len(RopParms) : HasBoth(RopParms[i].label))
    => /\ call.ret \in 1..Len(RopParms)
       /\ HasBoth(RopParms[call.ret].label) \/ HasBoth(RopParms[call.ret].name)
       /\ \A j \in 1..(call.ret - 1) :
             ~HasBoth(RopParms[j].label) /\ ~HasBoth(RopParms[j].name)

(***************************************************************************)
(* Properties of the turntable rotation (SpecRotate)                       *)
(***************************************************************************)
\* a/b <= c/d on the rationals held by two float values
FloatLeq(x, y) == x.num * y.den <= y.num * x.den

\* C8: with N > 1 frames, total rotation D and a camera that has "ry",
\* rotate_camera_turntable sets ry to index/(N-1) * D: exactly 0 at index 0,
\* exactly D at index N-1, and (D >= 0) never less than at the index before;
\* with N <= 1 it sets nothing and does not divide.
C8_TurntableAngle ==
    call.fn = "rotate_camera_turntable" =>
        /\ ~call.err
        /\ call.total_frames <= 1 =>
              /\ ~call.divided
              /\ vals = InitVals(parms)
        /\ (call.total_frames > 1 /\ HasName(parms[CAM_PATH], "ry")) =>
              /\ call.divided
              /\ CamRy(vals).kind = "float"
              /\ CamRy(vals).num * (call.total_frames - 1)
                    = call.frame_idx * call.degrees * CamRy(vals).den
              /\ call.frame_idx = 0 => CamRy(vals) = FloatVal(0, 1)
              /\ call.frame_idx = call.total_frames - 1
                    => CamRy(vals) = FloatVal(call.degrees, 1)
              /\ (call.frame_idx > 0 /\ call.degrees >= 0)
                    => FloatLeq(call.before, CamRy(vals))

\* the last frame of the built-in turntable: N = 12, D = 360, ry = 360
C8_Witness ==
    /\ call.fn = "rotate_camera_turntable"
    /\ call.total_frames = 12
    /\ call.degrees = 360
    /\ call.frame_idx = 11
    /\ HasName(parms[CAM_PATH], "ry")
    /\ CamRy(vals) = FloatVal(360, 1)

(***************************************************************************)
(* Properties of the sweep drivers (Spec)                                  *)
(***************************************************************************)
NumCombos == Len(cfg.roughness) * Len(cfg.light_intensity) * Len(cfg.pixel_samples)

NumRenders == NumCombos * cfg.turntable_frames

RowKey(row) == <<row.roughness, row.light_intensity, row.pixel_samples, row.frame>>

\* row i of the log is the record of render call i
RowOfRender(i) ==
    /\ renders[i].picture = StrVal(csv_rows[i].output_file)
    /\ renders[i].frame_range = <<csv_rows[i].frame, csv_rows[i].frame>>

\* C1: a run of the sweep driver in which no render fails writes exactly
\* R*L*S*N records (360 for the built-in configuration), one per render call,
\* and at no time do two records share their (roughness, light_intensity,
\* pixel_samples, frame) tuple or their output file path.
C1_RecordsCountedAndUnique ==
    script = SWEEP1 =>
        /\ pc = "done" =>
              /\ failures = {}
              /\ Len(csv_rows) = NumRenders
              /\ Len(renders) = NumRenders
              /\ NumRenders = 360
        /\ Cardinality({RowKey(csv_rows[i]) : i \in 1..Len(csv_rows)}) = Len(csv_rows)
        /\ Cardinality({csv_rows[i].output_file : i \in 1..Len(csv_rows)}) = Len(csv_rows)
        /\ \A i \in 1..Len(csv_rows) : RowOfRender(i)

C1_Witness ==
    /\ script = SWEEP1
    /\ pc = "done"
    /\ exit_status = "0"
    /\ Len(csv_rows) = 360

\* C2: a record is written after each render call returns and before the
\* next one starts; when the k-th render call fails the run ends there with a
\* fatal error, nothing can happen afterwards, and the closed log holds the
\* header row and exactly the records of the k-1 completed renders, in order.
C2_RecordPerRenderNoRetry ==
    script = SWEEP1 =>
        /\ pc = "render" => Len(csv_rows) = Len(renders)
        /\ pc = "write" => Len(csv_rows) = Len(renders) - 1
        /\ failures # {} =>
              /\ failures = {Len(renders)}
              /\ pc = "fatal"
              /\ exit_status = "unhandled"
              /\ ~ENABLED Next
              /\ Len(csv_rows) = Len(renders) - 1
              /\ csv_header = <<CsvHeader>>
              /\ csv_state = "closed"
        /\ \A i \in 1..Len(csv_rows) : RowOfRender(i)

\* the third render call failed
C2_Witness ==
    /\ script = SWEEP1
    /\ pc = "fatal"
    /\ failures = {3}
    /\ Len(renders) = 3
    /\ Len(csv_rows) = 2
    /\ csv_rows[2].frame = 2

\* a resource the script requires is missing from the scene
MissingResource ==
    \/ ~hip_exists
    \/ ~(RequiredNodes(script) \subseteq nodes)
    \/ ParmIndex(parms[MATERIAL_NODE_PATH], ROUGHNESS_PARM_NAME) = 0
    \/ script = SWEEP1 /\ LightIntensityParm(parms[LIGHT_PATH]) = 0
    \/ script = SWEEP1 /\ find_output_picture_parm(parms[KARMA_ROP_PATH]) = 0
    \/ script = SWEEP /\ find_output_picture_parm_sweep(parms[KARMA_ROP_PATH]) = 0

\* C3: with the scene file missing, a configured node path unresolved or a
\* required parameter (roughness, light intensity, output picture)
\* unresolvable, the run goes on until it ends with a non-zero exit status
\* (1 or an unhandled error): no render call is made, no record is written.
C3_MissingResourceIsFatal ==
    MissingResource =>
        /\ renders = <<>>
        /\ csv_rows = <<>>
        /\ csv_state = "none"
        /\ pc \in {"start", "load", "parms", "exited", "fatal"}
        /\ pc \in {"exited", "fatal"} <=> exit_status \in {"1", "unhandled"}
        /\ pc \notin {"exited", "fatal"} => (exit_status = "running" /\ ENABLED Next)

\* everything but the output picture resolves, and the run has ended
C3_Witness ==
    /\ hip_exists
    /\ nodes = NodePaths
    /\ script = SWEEP1
    /\ ParmIndex(parms[MATERIAL_NODE_PATH], ROUGHNESS_PARM_NAME) # 0
    /\ LightIntensityParm(parms[LIGHT_PATH]) # 0
    /\ find_output_picture_parm(parms[KARMA_ROP_PATH]) = 0
    /\ Len(parms[KARMA_ROP_PATH]) > 0
    /\ pc = "fatal"
    /\ exit_status = "unhandled"

\* the render calls of a full sweep, from the configuration alone
ExpectedRenders ==
    [i \in 1..NumRenders |->
        LET k == ((i - 1) \div cfg.turntable_frames) + 1
            f == ((i - 1) % cfg.turntable_frames) + 1
        IN [frame_range |-> <<f, f>>, picture |-> StrVal(out_file(combos[k], f))]]

NoSamplesParm ==
    /\ ~HasCandidate(RopParms, SampleCandidates)
    /\ find_parm_by_label_contains(RopParms,
          <<"pixel samples", "samples per pixel", "samples/pixel">>) = 0

\* C4: the best-effort conditions are not fatal and do not change the sweep.
\* Without a pixel-sample parameter on the render node nothing but the output
\* picture is ever set there and every record carries "<not_found>"; without
\* "ry" on the camera nothing is ever set there; whatever the scene, the
\* render calls are those of the configuration (same frames, same output
\* paths, same order) and only a failing render call ends the run early.
C4_BestEffortNeverFatal ==
    (script = SWEEP1 /\ ~MissingResource) =>
        /\ NoSamplesParm =>
              /\ ps_parm_used \in {"", NotFound}
              /\ pc \in {"frame", "render", "write"} => ps_parm_used = NotFound
              /\ \A i \in 1..Len(csv_rows) :
                    csv_rows[i].pixel_samples_parm_used = NotFound
              /\ \A i \in 1..Len(RopParms) :
                    i # out_picture_parm => vals[KARMA_ROP_PATH][i] = SceneVal
        /\ ~HasName(parms[CAM_PATH], "ry") =>
              \A i \in 1..Len(parms[CAM_PATH]) : vals[CAM_PATH][i] = SceneVal
        /\ Len(renders) <= NumRenders
        /\ \A i \in 1..Len(renders) : renders[i] = ExpectedRenders[i]
        /\ pc = "fatal" => (renders # <<>> /\ Len(csv_rows) = Len(renders) - 1)
        /\ pc = "done" => Len(renders) = NumRenders

\* a full sweep on a scene without pixel-sample parameter and without ry
C4_Witness ==
    /\ script = SWEEP1
    /\ pc = "done"
    /\ NoSamplesParm
    /\ ~HasName(parms[CAM_PATH], "ry")
    /\ Len(renders) = 360
    /\ csv_rows[360].pixel_samples_parm_used = NotFound

\* the configured values as the log prints them
RoughnessColumn == [k \in 1..Len(cfg.roughness) |-> Fmt2f(cfg.roughness[k])]

LightColumn == [k \in 1..Len(cfg.light_intensity) |-> Fmt2f(cfg.light_intensity[k])]

\* position of x in the tuple t, 0 when it is not there
IndexIn(t, x) ==
    IF \E k \in 1..Len(t) : t[k] = x THEN CHOOSE k \in 1..Len(t) : t[k] = x ELSE 0

\* (roughness index, light index, sample index, frame) of a record
RowPosition(row) ==
    <<IndexIn(RoughnessColumn, row.roughness),
      IndexIn(LightColumn, row.light_intensity),
      IndexIn(cfg.pixel_samples, row.pixel_samples),
      row.frame>>

\* lexicographic order of positions: roughness index first, frame last
LexLess(a, b) ==
    \E k \in 1..4 : a[k] < b[k] /\ \A j \in 1..(k - 1) : a[j] = b[j]

\* the positions (roughness index, light index, sample index, frame), the
\* frame advancing fastest and the roughness index slowest
LexPositions ==
    LET L == Len(cfg.light_intensity)
        S == Len(cfg.pixel_samples)
        N == cfg.turntable_frames
    IN [i \in 1..NumRenders |->
          <<((i - 1) \div (L * S * N)) + 1,
            (((i - 1) \div (S * N)) % L) + 1,
            (((i - 1) \div N) % S) + 1,
            ((i - 1) % N) + 1>>]

\* LexPositions is every position once, in ascending lexicographic order
LexAscending ==
    /\ \A i \in 1..NumRenders :
          /\ LexPositions[i][1] \in 1..Len(cfg.roughness)
          /\ LexPositions[i][2] \in 1..Len(cfg.light_intensity)
          /\ LexPositions[i][3] \in 1..Len(cfg.pixel_samples)
          /\ LexPositions[i][4] \in 1..cfg.turntable_frames
    /\ \A i \in 1..(NumRenders - 1) : LexLess(LexPositions[i], LexPositions[i + 1])

\* the record is the one of position p
RowAt(row, p) ==
    /\ row.roughness = RoughnessColumn[p[1]]
    /\ row.light_intensity = LightColumn[p[2]]
    /\ row.pixel_samples = cfg.pixel_samples[p[3]]
    /\ row.frame = p[4]

\* no value is printed twice in a column, so a record has one position
ColumnsDistinct ==
    /\ \A j, k \in 1..Len(RoughnessColumn) : j # k => RoughnessColumn[j] # RoughnessColumn[k]
    /\ \A j, k \in 1..Len(LightColumn) : j # k => LightColumn[j] # LightColumn[k]
    /\ \A j, k \in 1..Len(cfg.pixel_samples) :
          j # k => cfg.pixel_samples[j] # cfg.pixel_samples[k]

\* C7: renders are called and recorded in the lexicographic order of
\* (roughness index, light index, sample index, frame), roughness outermost
\* and the frames 1..N innermost and ascending: the i-th record is the one of
\* the i-th position in that order (so an earlier record has the smaller
\* position and the renders of two combinations never interleave), and
\* record i is that of render call i.
C7_LexicographicOrder ==
    script = SWEEP1 =>
        /\ ColumnsDistinct
        /\ LexAscending
        /\ Len(csv_rows) <= NumRenders
        /\ \A i \in 1..Len(csv_rows) : RowAt(csv_rows[i], LexPositions[i]) /\ RowOfRender(i)
        /\ Len(renders) - Len(csv_rows) \in {0, 1}

\* the sample count (innermost of the three) has advanced before the light
C7_Witness ==
    /\ script = SWEEP1
    /\ Len(csv_rows) = 2 * cfg.turntable_frames + 1
    /\ RowPosition(csv_rows[cfg.turntable_frames]) = <<1, 1, 1, 12>>
    /\ RowPosition(csv_rows[cfg.turntable_frames + 1]) = <<1, 1, 2, 1>>
    /\ RowPosition(csv_rows[2 * cfg.turntable_frames + 1]) = <<1, 2, 1, 1>>

C10_SceneMatchesRecord ==
    (script = SWEEP1 /\ pc = "render") =>
        LET c == combos[ci]
            f == 1 + frame_idx
            ps == PixelSamplesParm(RopParms)
        IN /\ vals[KARMA_ROP_PATH][out_picture_parm] = StrVal(out_file(c, f))
           /\ render_one(vals[KARMA_ROP_PATH], out_picture_parm, RenderFrame).frame_range
                 = <<f, f>>
           /\ vals[MATERIAL_NODE_PATH][rough_parm] = FloatVal(c.r, 100)
           /\ vals[LIGHT_PATH][light_int_parm] = FloatVal(c.li, 100)
           /\ ps_parm_used # NotFound => vals[KARMA_ROP_PATH][ps] = IntVal(c.ps)

====
